---- MODULE Spec2Model ----
(***************************************************************************)
(* Golden-file test helper (package golden, src/file.go).                  *)
(*                                                                         *)
(* Strings are sequences of one-character strings, so that the path        *)
(* derivation (SplitN, ReplaceAll, filepath.Join, filepath.Dir) is         *)
(* computed character by character as the Go code computes it.             *)
(***************************************************************************)
EXTENDS Integers, Sequences, FiniteSets, TLC

VARIABLES
    files,    \* the file system's regular files: path -> content
    dirs,     \* the file system's directories (a set of paths)
    env,      \* the value of GOLDEN_FILES_RECREATE ("" when unset)
    call,     \* the call a test has just made: inputs, steps and outcome
    recreated, \* history: the most recent call that wrote a golden file
    tname,    \* path resolver: the test identifier given to TestNameToFilePath
    tpath,    \* path resolver: the path it returned (<<>> before the call)
    par       \* parallel sub-tests: each one's call record and position

vars == <<files, dirs, env, call, recreated, tname, tpath, par>>

(***************************************************************************)
(* Bounds of the model.                                                    *)
(***************************************************************************)
\* longest test identifier, in characters, given to the path resolver
MaxNameLen == 5
\* number of distinct JSON documents a test may produce
NDocs == 2

(***************************************************************************)
(* String helpers (Go's strings package on single-character separators).   *)
(***************************************************************************)
\* the characters test identifiers are built from
Alphabet == {"a", "/", " ", "_", "."}

RECURSIVE StringsUpTo(_)
StringsUpTo(n) ==
    IF n = 0 THEN {<<>>}
    ELSE LET shorter == StringsUpTo(n - 1)
         IN  shorter \cup {Append(s, c) : s \in {x \in shorter : Len(x) = n - 1}, c \in Alphabet}

\* strings.Index(s, c) for a one-character c: first position, 0 when absent
Index(s, c) ==
    IF \E i \in 1..Len(s) : s[i] = c
    THEN CHOOSE i \in 1..Len(s) : s[i] = c /\ \A j \in 1..(i - 1) : s[j] # c
    ELSE 0

\* strings.ReplaceAll(s, old, new) for one-character old and new
ReplaceAll(s, old, new) == [i \in 1..Len(s) |-> IF s[i] = old THEN new ELSE s[i]]

\* strings.SplitN(s, "/", 2): at most two parts, cut at the first "/"
SplitN2(s) ==
    LET i == Index(s, "/")
    IN  IF i = 0 THEN <<s>>
        ELSE <<SubSeq(s, 1, i - 1), SubSeq(s, i + 1, Len(s))>>

\* strings.Split(s, "/"): every segment between separators, empty ones kept
RECURSIVE Segments(_)
Segments(s) ==
    LET i == Index(s, "/")
    IN  IF i = 0 THEN <<s>>
        ELSE <<SubSeq(s, 1, i - 1)>> \o Segments(SubSeq(s, i + 1, Len(s)))

RECURSIVE JoinSegments(_)
JoinSegments(segs) ==
    IF Len(segs) = 0 THEN <<>>
    ELSE IF Len(segs) = 1 THEN segs[1]
    ELSE segs[1] \o <<"/">> \o JoinSegments(Tail(segs))

(***************************************************************************)
(* path/filepath (Unix): Clean, Join, Dir.                                 *)
(***************************************************************************)
Dot == <<".">>
DotDot == <<".", ".">>

\* the element stack filepath.Clean builds: "" and "." are dropped, ".."
\* removes the element before it, or is kept at the start of a relative path
RECURSIVE CleanStack(_, _, _)
CleanStack(segs, out, rooted) ==
    IF Len(segs) = 0 THEN out
    ELSE LET e == segs[1]
             rest == Tail(segs)
         IN  IF e = <<>> \/ e = Dot THEN CleanStack(rest, out, rooted)
             ELSE IF e = DotDot
                  THEN IF Len(out) > 0 /\ out[Len(out)] # DotDot
                       THEN CleanStack(rest, SubSeq(out, 1, Len(out) - 1), rooted)
                       ELSE IF rooted THEN CleanStack(rest, out, rooted)
                            ELSE CleanStack(rest, Append(out, e), rooted)
                  ELSE CleanStack(rest, Append(out, e), rooted)

\* filepath.Clean(path)
Clean(path) ==
    IF path = <<>> THEN Dot
    ELSE LET rooted == path[1] = "/"
             body == JoinSegments(CleanStack(Segments(path), <<>>, rooted))
         IN  IF rooted THEN <<"/">> \o body
             ELSE IF body = <<>> THEN Dot ELSE body

\* filepath.Join(elems...): empty elements are ignored, the rest joined by "/"
\* and the result cleaned
Join(elems) ==
    LET nonEmpty == SelectSeq(elems, LAMBDA e : e # <<>>)
    IN  IF Len(nonEmpty) = 0 THEN <<>> ELSE Clean(JoinSegments(nonEmpty))

\* position of the last "/" of path, 0 when there is none
LastSlash(path) ==
    IF \E i \in 1..Len(path) : path[i] = "/"
    THEN CHOOSE i \in 1..Len(path) : path[i] = "/" /\ \A j \in (i + 1)..Len(path) : path[j] # "/"
    ELSE 0

\* filepath.Dir(path): everything up to the last separator, cleaned
Dir(path) == Clean(SubSeq(path, 1, LastSlash(path)))

(***************************************************************************)
(* Path resolver.                                                          *)
(***************************************************************************)
TestdataDir == <<".", "/", "t", "e", "s", "t", "d", "a", "t", "a", "/">>
GoldenExt == <<".", "g", "o", "l", "d", "e", "n">>

\* TestNameToFilePath, wrongly splitting at every "/" into nested directories
TestNameToFilePathNested(name) ==
    ReplaceAll(Join(<<TestdataDir, name \o GoldenExt>>), " ", "_")

\* TestNameToFilePath that leaves the spaces of the identifier in the path
TestNameToFilePathSpaces(name) ==
    LET split == SplitN2(name)
        mainTestName == IF Len(split) = 2 THEN split[1] ELSE name
        testName == IF Len(split) = 2 THEN ReplaceAll(split[2], "/", "_") ELSE name
    IN  Join(<<TestdataDir, mainTestName, testName \o GoldenExt>>)

\* TestNameToFilePath(t) for t.Name() = name
TestNameToFilePath(name) ==
    LET split == SplitN2(name)
        mainTestName == IF Len(split) = 2 THEN split[1] ELSE name
        testName == IF Len(split) = 2 THEN ReplaceAll(split[2], "/", "_") ELSE name
    IN  ReplaceAll(Join(<<TestdataDir, mainTestName, testName \o GoldenExt>>), " ", "_")

(***************************************************************************)
(* Data.  A text is <<doc, layout>>: which JSON document it encodes and in *)
(* which textual layout.  Layout 0 is the indented, key-sorted form the    *)
(* JSON pretty-printer produces, layout 1 a compact form of the same       *)
(* document; doc 0 is text that is not valid JSON.  Two texts are the same *)
(* string exactly when both components agree.                              *)
(***************************************************************************)
Layouts == {0, 1}
InvalidJSON == <<0, 0>>
\* the empty string, which is what string(b) is when ReadFile returned no bytes
EmptyText == <<0, 1>>
Data == {InvalidJSON} \cup ((1..NDocs) \X Layouts)

\* the test identifiers used by the tests of the handler (t.Name())
TestNames == {<<"T">>, <<"T", "/", "a", " ", "b">>}

\* identifiers of sub-tests that differ in "/", " " and "_" only
CollidingNames ==
    {<<"T", "/", "a", "/", "b">>, <<"T", "/", "a", "_", "b">>, <<"T", "/", "a", " ", "b">>}

\* identifiers at the edges of the path derivation: empty, beginning or
\* ending with "/", first segment "." or ".."
EdgeNames ==
    {<<>>, <<"/", "a">>, <<"a", "/">>, <<".">>, <<".", ".">>, <<".", ".", "/", "a">>}

\* the golden path of each of these tests, its directory and the directories
\* MkdirAll makes for it, each computed once
GoldenPath == [n \in TestNames \cup CollidingNames \cup EdgeNames |-> TestNameToFilePath(n)]
GoldenPaths == {GoldenPath[n] : n \in DOMAIN GoldenPath}
DirOf == [p \in GoldenPaths |-> Dir(p)]

\* values the tests give GOLDEN_FILES_RECREATE ("" is unset)
EnvValues == {"", "true", "maybe"}

\* HTTP status codes the server answers with, and the one the test expects
StatusCodes == {200, 400}
ExpectedStatusCodes == {400}

(***************************************************************************)
(* Errors and the test-reporting object T.                                 *)
(***************************************************************************)
NilErr == [op |-> "", path |-> <<>>, errno |-> ""]
PathError(op, path, errno) == [op |-> op, path |-> path, errno |-> errno]

\* t.Errorf: the report is appended to the test's messages; the test goes on
Errorf(c, text, err, diff) ==
    [c EXCEPT !.msg = Append(@, [text |-> text, err |-> err, diff |-> diff]),
              !.steps = Append(@, "Errorf")]

\* t.FailNow: the test is marked failed and its goroutine stops
FailNow(c) == [c EXCEPT !.failed = TRUE, !.steps = Append(@, "FailNow")]

\* NoError that reports the error and lets the test go on
NoErrorNoHalt(c, err, msg) ==
    IF err # NilErr THEN Errorf(c, msg, err, <<>>) ELSE c

\* NoError(t, err, msg)
NoError(c, err, msg) ==
    IF err # NilErr THEN FailNow(Errorf(c, msg, err, <<>>)) ELSE c

\* assert.Equal reporting nothing on a mismatch
EqualSilent(c, expected, actual) ==
    [c EXCEPT !.steps = Append(@, "Equal"), !.returned = TRUE, !.ok = (expected = actual)]

\* assert.Equal replaced by require.Equal, which halts the test on a mismatch
EqualWithDiffHalting(c, expected, actual) ==
    LET c1 == [c EXCEPT !.steps = Append(@, "Equal")]
    IN  IF expected = actual THEN [c1 EXCEPT !.returned = TRUE, !.ok = TRUE]
        ELSE FailNow(Errorf(c1, "Not equal", NilErr, <<expected, actual>>))

\* EqualWithDiff(t, expected, actual): testify's assert.Equal, which reports
\* "Not equal" with a diff through Errorf and returns false; it never halts
EqualWithDiff(c, expected, actual) ==
    LET c1 == [c EXCEPT !.steps = Append(@, "Equal")]
        c2 == IF expected = actual THEN c1
              ELSE Errorf(c1, "Not equal", NilErr, <<expected, actual>>)
    IN  [c2 EXCEPT !.returned = TRUE, !.ok = (expected = actual)]

(***************************************************************************)
(* The file system calls of package os.                                    *)
(***************************************************************************)
\* path and every ancestor directory of it, as MkdirAll creates them
RECURSIVE Ancestors(_)
Ancestors(path) ==
    IF path = Dot \/ path = <<>> THEN {}
    ELSE {path} \cup Ancestors(Dir(path))

AncestorsOf == [d \in {DirOf[p] : p \in GoldenPaths} |-> Ancestors(d)]

\* os.MkdirAll(path, 0o755): nil when the directory exists or was created
\* with its parents; an error when a component is a regular file
MkdirAllErr(c, path) ==
    IF c.fault = "MkdirAll" THEN PathError("mkdir", path, "EACCES")
    ELSE IF \E p \in AncestorsOf[path] : p \in DOMAIN c.files
         THEN PathError("mkdir", path, "ENOTDIR")
         ELSE NilErr

MkdirAll(c, path) ==
    LET c1 == [c EXCEPT !.steps = Append(@, "MkdirAll")]
    IN  IF MkdirAllErr(c, path) # NilErr THEN c1
        ELSE [c1 EXCEPT !.dirs = @ \cup AncestorsOf[path]]

\* os.WriteFile(name, data, 0o600): opens the file, creating or truncating it,
\* and writes data; when the write fails after the open, the file is left
\* truncated
WriteFileErr(c, name) ==
    IF c.fault = "WriteFile" THEN PathError("open", name, "EACCES")
    ELSE IF name \in c.dirs THEN PathError("open", name, "EISDIR")
    ELSE IF DirOf[name] \notin c.dirs THEN PathError("open", name, "ENOENT")
    ELSE IF c.fault = "WriteFileData" THEN PathError("write", name, "ENOSPC")
    ELSE NilErr

\* WriteFile that leaves a file that already exists as it is
WriteFileKeep(c, name, data) ==
    LET c1 == [c EXCEPT !.steps = Append(@, "WriteFile")]
        err == WriteFileErr(c, name)
    IN  IF err.op = "write" THEN [c1 EXCEPT !.files = (name :> EmptyText) @@ @, !.truncated = TRUE]
        ELSE IF err # NilErr THEN c1
        ELSE [c1 EXCEPT !.files = @ @@ (name :> data), !.written = <<data>>]

WriteFile(c, name, data) ==
    LET c1 == [c EXCEPT !.steps = Append(@, "WriteFile")]
        err == WriteFileErr(c, name)
    IN  IF err.op = "write" THEN [c1 EXCEPT !.files = (name :> EmptyText) @@ @, !.truncated = TRUE]
        ELSE IF err # NilErr THEN c1
        ELSE [c1 EXCEPT !.files = (name :> data) @@ @, !.written = <<data>>]

\* os.ReadFile(name)
ReadFileErr(c, name) ==
    IF c.fault = "ReadFile" THEN PathError("open", name, "EACCES")
    ELSE IF name \in c.dirs THEN PathError("read", name, "EISDIR")
    ELSE IF name \notin DOMAIN c.files THEN PathError("open", name, "ENOENT")
    ELSE NilErr

ReadFile(c, name) ==
    LET c1 == [c EXCEPT !.steps = Append(@, "ReadFile")]
    IN  IF ReadFileErr(c, name) # NilErr THEN c1
        ELSE [c1 EXCEPT !.expected = c.files[name]]

(***************************************************************************)
(* The strategies of a FileHandler.  A call is computed on a record c: the *)
(* inputs, the locals of the running call (data, fileName, ok), the test   *)
(* object's fields (msg, failed), the file system, and the trace of the    *)
(* collaborator calls made (steps).  Once FailNow has stopped the          *)
(* goroutine (c.failed) no later statement runs.                           *)
(***************************************************************************)
\* the statement F runs only if the goroutine has not been stopped
Then(c, F(_)) == IF c.failed THEN c ELSE F(c)

\* strconv.ParseBool
ParseBoolTrue == {"1", "t", "T", "TRUE", "true", "True"}
ParseBoolFalse == {"0", "f", "F", "FALSE", "false", "False"}
ParseBoolErr(str) ==
    IF str \in ParseBoolTrue \cup ParseBoolFalse THEN NilErr
    ELSE [op |-> "ParseBool", path |-> <<>>, errno |-> "invalid syntax"]

\* ParseRecreateFromEnv that takes a value it cannot parse as "do not recreate"
ParseRecreateFromEnvLenient(c) ==
    [c EXCEPT !.recreate = IF c.env \in ParseBoolTrue THEN "yes" ELSE "no"]

\* ParseRecreateFromEnv that answers from the value the variable had when the
\* process started (it was unset then)
ParseRecreateFromEnvAtStart(c) == [c EXCEPT !.recreate = "no"]

\* ParseRecreateFromEnv(t)
ParseRecreateFromEnv(c) ==
    IF c.env = "" THEN [c EXCEPT !.recreate = "no"]
    ELSE LET c1 == NoError(c, ParseBoolErr(c.env), "failed to parse GOLDEN_FILES_RECREATE env variable")
         IN  IF c1.failed THEN c1
             ELSE [c1 EXCEPT !.recreate = IF c.env \in ParseBoolTrue THEN "yes" ELSE "no"]

\* h.ShouldRecreate(t): the default strategy, or an injected constant function
ShouldRecreate(c) ==
    LET c1 == [c EXCEPT !.steps = Append(@, "ShouldRecreate")]
    IN  CASE c.h.ShouldRecreate = "ParseRecreateFromEnv" -> ParseRecreateFromEnv(c1)
          [] c.h.ShouldRecreate = "true" -> [c1 EXCEPT !.recreate = "yes"]
          [] c.h.ShouldRecreate = "false" -> [c1 EXCEPT !.recreate = "no"]

\* h.FileName(t)
FileName(c) ==
    [c EXCEPT !.steps = Append(@, "FileName"), !.fileName = GoldenPath[c.name]]

\* PrettyJSON(t, data): re-indents valid JSON text into the canonical layout;
\* text that is not valid JSON fails the test at once
PrettyJSON(c) ==
    IF c.data[1] = 0
    THEN NoError(c, [op |-> "json", path |-> <<>>, errno |-> "invalid character"], "failed to pretty print JSON")
    ELSE [c EXCEPT !.data = <<c.data[1], 0>>]

\* h.ProcessContent(t, data)
ProcessContent(c) ==
    LET c1 == [c EXCEPT !.steps = Append(@, "ProcessContent")]
    IN  CASE c.h.ProcessContent = "PrettyJSON" -> PrettyJSON(c1)

\* h.Equal(t, expected, actual)
Equal(c, expected, actual) == EqualWithDiff(c, expected, actual)

(***************************************************************************)
(* FileHandler.loadAndSaveFile and FileHandler.Assert.                     *)
(***************************************************************************)
\* the recreate branch with its errors reported but not stopping the test
RecreateGoesOn(c) ==
    LET mkdir(x, dir) == NoErrorNoHalt(MkdirAll(x, dir), MkdirAllErr(x, dir),
                                       "failed to create testdata directory for golden file")
        write(x) == NoErrorNoHalt(WriteFile(x, x.fileName, x.data), WriteFileErr(x, x.fileName),
                                  "failed to write golden file")
    IN  Then(mkdir([c EXCEPT !.steps = Append(@, "Logf")], DirOf[c.fileName]), write)

\* lines 110-112: the recreate branch
Recreate(c) ==
    LET mkdir(x, dir) == NoError(MkdirAll(x, dir), MkdirAllErr(x, dir),
                                 "failed to create testdata directory for golden file")
        write(x) == NoError(WriteFile(x, x.fileName, x.data), WriteFileErr(x, x.fileName),
                            "failed to write golden file")
    IN  Then(mkdir([c EXCEPT !.steps = Append(@, "Logf")], DirOf[c.fileName]), write)

\* the read back answered from what the call itself wrote, when it wrote
LoadOwn(c) ==
    IF c.written # <<>>
    THEN [c EXCEPT !.steps = Append(@, "ReadFile"), !.expected = c.written[1]]
    ELSE NoError(ReadFile(c, c.fileName), ReadFileErr(c, c.fileName), "failed to read golden file")

\* lines 115-117: read the golden file back
Load(c) == NoError(ReadFile(c, c.fileName), ReadFileErr(c, c.fileName), "failed to read golden file")

\* loadAndSaveFile that reads the golden file before it recreates it
loadAndSaveFileReadFirst(c) ==
    LET recreate(x) == IF x.recreate = "yes" THEN Recreate(x) ELSE x
    IN  Then(Then(ShouldRecreate(FileName(c)), Load), recreate)

\* loadAndSaveFile that makes the testdata directory whatever the policy says
loadAndSaveFileMkdirAlways(c) ==
    LET mkdir(x) == NoError(MkdirAll(x, DirOf[x.fileName]), MkdirAllErr(x, DirOf[x.fileName]),
                            "failed to create testdata directory for golden file")
        recreate(x) == IF x.recreate = "yes" THEN Recreate(x) ELSE x
    IN  Then(Then(Then(ShouldRecreate(FileName(c)), mkdir), recreate), Load)

\* h.loadAndSaveFile(t, data), with c.data the data argument; the string it
\* returns is c.expected
loadAndSaveFile(c) ==
    LET recreate(x) == IF x.recreate = "yes" THEN Recreate(x) ELSE x
    IN  Then(Then(ShouldRecreate(FileName(c)), recreate), Load)

\* Assert that saves the data as it was passed and compares the transformed data
FileHandlerAssertCallRaw(c) ==
    LET c1 == [c EXCEPT !.steps = Append(@, "Helper")]
        c2 == IF c.h.ProcessContent # "nil" THEN ProcessContent(c1) ELSE c1
        save(x) == [loadAndSaveFile([x EXCEPT !.data = x.arg]) EXCEPT !.data = x.data]
        c3 == Then(c2, save)
        equal(x) == Equal(x, x.expected, x.data)
    IN  Then(c3, equal)

\* Assert that compares the golden file with the data as it was passed
FileHandlerAssertCallCompareRaw(c) ==
    LET c1 == [c EXCEPT !.steps = Append(@, "Helper")]
        c2 == IF c.h.ProcessContent # "nil" THEN ProcessContent(c1) ELSE c1
        c3 == Then(c2, loadAndSaveFile)
        equal(x) == Equal(x, x.expected, x.arg)
    IN  Then(c3, equal)

\* Assert that transforms the data after the golden file was saved and loaded
FileHandlerAssertCallTransformLate(c) ==
    LET process(x) == IF x.h.ProcessContent # "nil" THEN ProcessContent(x) ELSE x
        equal(x) == Equal(x, x.expected, x.data)
    IN  Then(Then(loadAndSaveFile([c EXCEPT !.steps = Append(@, "Helper")]), process), equal)

\* h.Assert(t, data)
FileHandlerAssertCall(c) ==
    LET c1 == [c EXCEPT !.steps = Append(@, "Helper")]
        c2 == IF c.h.ProcessContent # "nil" THEN ProcessContent(c1) ELSE c1
        c3 == Then(c2, loadAndSaveFile)
        equal(x) == Equal(x, x.expected, x.data)
    IN  Then(c3, equal)

(***************************************************************************)
(* FileHandler.Request.                                                    *)
(***************************************************************************)
\* no response: resp is nil
NoResponse == [StatusCode |-> 0, Body |-> [unread |-> <<>>]]

\* the status code comparison made with require instead of assert: a mismatch
\* stops the test
CheckStatusHalting(c) ==
    IF c.resp.StatusCode # c.expectedStatusCode
    THEN FailNow(Errorf([c EXCEPT !.statusOk = FALSE], "expected status code", NilErr,
                        <<c.expectedStatusCode, c.resp.StatusCode>>))
    ELSE [c EXCEPT !.statusOk = TRUE]

\* lines 86-90: the status code comparison
CheckStatus(c) ==
    IF c.resp.StatusCode # c.expectedStatusCode
    THEN Errorf([c EXCEPT !.statusOk = FALSE], "expected status code", NilErr,
                <<c.expectedStatusCode, c.resp.StatusCode>>)
    ELSE [c EXCEPT !.statusOk = TRUE]

\* lines 92-93: io.ReadAll(resp.Body) drains the body stream
ReadAllErr(c) ==
    IF c.fault = "ReadAll" THEN [op |-> "read", path |-> <<>>, errno |-> "unexpected EOF"]
    ELSE NilErr

ReadAll(c) ==
    LET c1 == [c EXCEPT !.steps = Append(@, "ReadAll"), !.resp.Body.unread = <<>>]
    IN  IF ReadAllErr(c) # NilErr THEN c1
        ELSE [c1 EXCEPT !.body = c.resp.Body.unread]

\* Request that hands the response back with its body drained
RestoreBodyNot(c) == c

\* line 95: the response gets a fresh reader over the bytes read
RestoreBody(c) == [c EXCEPT !.resp.Body.unread = c.body]

\* line 96 with the operands of && in the other order: the status mismatch
\* decides and Assert is not called
AssertBodyUnlessMismatch(c) ==
    LET return(x) == [x EXCEPT !.reqReturned = TRUE, !.reqOk = x.ok /\ x.statusOk]
    IN  IF c.statusOk
        THEN Then(FileHandlerAssertCall([c EXCEPT !.arg = c.body[1], !.data = c.body[1]]), return)
        ELSE [c EXCEPT !.reqReturned = TRUE, !.reqOk = FALSE]

\* line 96 with || in place of &&
AssertBodyOr(c) ==
    LET return(x) == [x EXCEPT !.reqReturned = TRUE, !.reqOk = x.ok \/ x.statusOk]
    IN  Then(FileHandlerAssertCall([c EXCEPT !.arg = c.body[1], !.data = c.body[1]]), return)

\* line 96: h.Assert(t, string(body)) && ok
AssertBody(c) ==
    LET return(x) == [x EXCEPT !.reqReturned = TRUE, !.reqOk = x.ok /\ x.statusOk]
    IN  Then(FileHandlerAssertCall([c EXCEPT !.arg = c.body[1], !.data = c.body[1]]), return)

\* client.Do(req): the transport fails, or the server's response arrives
DoErr(c) ==
    IF c.fault = "Do" THEN [op |-> "Get", path |-> <<>>, errno |-> "connection refused"]
    ELSE NilErr

\* line 83: resp is the client's answer, or nil with an error
Do(c) ==
    [c EXCEPT !.steps = Append(@, "Do"),
              !.resp = IF DoErr(c) # NilErr THEN NoResponse ELSE c.resp0]

\* Request that looks at the status code before it checks the error of Do
FileHandlerRequestCallStatusFirst(c) ==
    LET c1 == NoError(CheckStatus(Do(c)), DoErr(c), "client.Do failed")
        readBody(x) == NoError(ReadAll(x), ReadAllErr(x), "reading response body failed")
        rest(x) == Then(Then(readBody(x), RestoreBody), AssertBody)
    IN  Then(c1, rest)

\* h.Request(t, client, req, expectedStatusCode)
FileHandlerRequestCall(c) ==
    LET c1 == NoError(Do(c), DoErr(c), "client.Do failed")
        readBody(x) == NoError(ReadAll(x), ReadAllErr(x), "reading response body failed")
        rest(x) == Then(Then(readBody(CheckStatus(x)), RestoreBody), AssertBody)
    IN  Then(c1, rest)

(***************************************************************************)
(* The state machine: the tests call Assert and Request on a handler and   *)
(* set the environment variable between calls.                             *)
(***************************************************************************)
\* the handlers the tests build: the FileHandler struct with its four fields
Handlers ==
    [FileName : {"TestNameToFilePath"},
     ShouldRecreate : {"ParseRecreateFromEnv", "true", "false"},
     ProcessContent : {"nil", "PrettyJSON"},
     Equal : {"EqualWithDiff"}]

\* DefaultHandler
DefaultHandler ==
    [FileName |-> "TestNameToFilePath", ShouldRecreate |-> "ParseRecreateFromEnv",
     ProcessContent |-> "nil", Equal |-> "EqualWithDiff"]

\* the I/O operations of a call that the environment may make fail
AssertFaults == {"none", "MkdirAll", "WriteFile", "WriteFileData", "ReadFile"}
RequestFaults == AssertFaults \cup {"Do", "ReadAll"}

\* no golden file has been written yet
NotRecreated == [name |-> <<>>, arg |-> InvalidJSON, pc |-> "nil", fileName |-> <<>>]

\* the record of a call at its entry, made in environment e, with the file
\* system fs, ds and the history rc
CallRecord(op, h, name, data, fault, e, fs, ds, rc) ==
    [op |-> op, h |-> h, name |-> name, arg |-> data, fault |-> fault, env |-> e,
     files0 |-> fs, dirs0 |-> ds, files |-> fs, dirs |-> ds,
     recreated0 |-> rc,
     data |-> data, fileName |-> <<>>, recreate |-> "undecided",
     written |-> <<>>, truncated |-> FALSE, expected |-> EmptyText,
     steps |-> <<>>, msg |-> <<>>, failed |-> FALSE,
     returned |-> FALSE, ok |-> FALSE,
     resp0 |-> NoResponse, resp |-> NoResponse, expectedStatusCode |-> 0, body |-> <<>>,
     statusOk |-> FALSE, reqReturned |-> FALSE, reqOk |-> FALSE]

NewCall(op, h, name, data, fault) ==
    CallRecord(op, h, name, data, fault, env, files, dirs, recreated)

\* no call is under way: the test is between two calls
NoCall == CallRecord("none", DefaultHandler, <<>>, InvalidJSON, "none", "", <<>>, {}, NotRecreated)

\* an injected fault is one that the call ran into
FaultFired(c) ==
    \/ c.fault = "none"
    \/ \E i \in 1..Len(c.steps) :
          c.steps[i] = (IF c.fault = "WriteFileData" THEN "WriteFile" ELSE c.fault)

\* the history of golden files written, after call c
Recreated(c) ==
    IF c.written # <<>>
    THEN [name |-> c.name, arg |-> c.arg, pc |-> c.h.ProcessContent, fileName |-> c.fileName]
    ELSE IF c.truncated THEN NotRecreated
    ELSE recreated

\* no sub-test runs in parallel
NoPar == <<>>

Init ==
    /\ files = <<>>
    /\ dirs = {Dot}
    /\ env = ""
    /\ call = NoCall
    /\ recreated = NotRecreated
    /\ tname = <<>>
    /\ tpath = <<>>
    /\ par = NoPar

\* t.Setenv("GOLDEN_FILES_RECREATE", v) between two calls, and its undoing
\* when the test ends
Setenv(v) ==
    /\ call.op = "none"
    /\ v # env
    /\ env' = v
    /\ UNCHANGED <<files, dirs, call, recreated, tname, tpath, par>>

\* a test calls h.Assert(t, data) with t.Name() = name
FileHandlerAssert(h, name, data, fault) ==
    /\ call.op = "none"
    /\ \E c \in {FileHandlerAssertCall(NewCall("Assert", h, name, data, fault))} :
        /\ FaultFired(c)
        /\ files' = c.files
        /\ dirs' = c.dirs
        /\ call' = c
        /\ recreated' = Recreated(c)
    /\ UNCHANGED <<env, tname, tpath, par>>

\* the response of the client to the request of a test
Response(statusCode, body) == [StatusCode |-> statusCode, Body |-> [unread |-> <<body>>]]

\* a test calls h.Request(t, client, req, expectedStatusCode); the client
\* answers with statusCode and body unless the transport fails
FileHandlerRequest(h, name, statusCode, body, expectedStatusCode, fault) ==
    /\ call.op = "none"
    /\ \E c \in {FileHandlerRequestCall(
                 [NewCall("Request", h, name, body, fault)
                      EXCEPT !.resp0 = Response(statusCode, body),
                             !.expectedStatusCode = expectedStatusCode])} :
        /\ FaultFired(c)
        /\ files' = c.files
        /\ dirs' = c.dirs
        /\ call' = c
        /\ recreated' = Recreated(c)
    /\ UNCHANGED <<env, tname, tpath, par>>

\* the test has looked at the outcome of its call and goes on
TestGoesOn ==
    /\ call.op # "none"
    /\ call' = NoCall
    /\ UNCHANGED <<files, dirs, env, recreated, tname, tpath, par>>

Next ==
    \/ \E v \in EnvValues : Setenv(v)
    \/ \E h \in Handlers, name \in TestNames, data \in Data, fault \in AssertFaults :
          FileHandlerAssert(h, name, data, fault)
    \/ TestGoesOn

Spec == Init /\ [][Next]_vars

(***************************************************************************)
(* Tests of Request: one test, whose server answers each request.          *)
(***************************************************************************)
RequestNames == {<<"T">>}

NextRequest ==
    \/ \E v \in EnvValues : Setenv(v)
    \/ \E h \in Handlers, name \in RequestNames, statusCode \in StatusCodes, body \in Data,
          expectedStatusCode \in ExpectedStatusCodes, fault \in RequestFaults :
          FileHandlerRequest(h, name, statusCode, body, expectedStatusCode, fault)
    \/ TestGoesOn

SpecRequest == Init /\ [][NextRequest]_vars

\* tests of Assert and tests of Request together
NextAll == Next \/ NextRequest

SpecAll == Init /\ [][NextAll]_vars

(***************************************************************************)
(* The path resolver alone: a test identifier is chosen and resolved.      *)
(***************************************************************************)
Names == StringsUpTo(MaxNameLen)

InitPath ==
    /\ files = <<>>
    /\ dirs = {Dot}
    /\ env = ""
    /\ call = NoCall
    /\ recreated = NotRecreated
    /\ tname \in Names
    /\ tpath = <<>>
    /\ par = NoPar

\* TestNameToFilePath(t) is called
Resolve ==
    /\ tpath = <<>>
    /\ tpath' = TestNameToFilePath(tname)
    /\ UNCHANGED <<files, dirs, env, call, recreated, tname, par>>

\* the test has used the path; a later call resolves the identifier anew
PathUsed ==
    /\ tpath # <<>>
    /\ tpath' = <<>>
    /\ UNCHANGED <<files, dirs, env, call, recreated, tname, par>>

NextPath == Resolve \/ PathUsed

SpecPath == InitPath /\ [][NextPath]_vars

(***************************************************************************)
(* Sub-tests whose identifiers collide: each calls Assert in turn.         *)
(***************************************************************************)
CollisionHandlers == {h \in Handlers : h.ShouldRecreate \in {"true", "false"} /\ h.ProcessContent = "nil"}

NextCollision ==
    \/ \E h \in CollisionHandlers, name \in CollidingNames, data \in Data :
          FileHandlerAssert(h, name, data, "none")
    \/ TestGoesOn

SpecCollision == Init /\ [][NextCollision]_vars

(***************************************************************************)
(* Tests whose identifiers are at the edges of the path derivation: each   *)
(* calls Assert in turn, on one JSON document in either layout.            *)
(***************************************************************************)
EdgeData == {1} \X Layouts

NextEdge ==
    \/ \E h \in CollisionHandlers, name \in EdgeNames, data \in EdgeData :
          FileHandlerAssert(h, name, data, "none")
    \/ TestGoesOn

SpecEdge == Init /\ [][NextEdge]_vars

(***************************************************************************)
(* Parallel sub-tests: two sub-tests that called t.Parallel() run          *)
(* h.Assert at the same time on one file system.  Each statement of        *)
(* Assert and loadAndSaveFile that touches the file system is a step of    *)
(* its own; os.MkdirAll and os.WriteFile are two system calls each,        *)
(* between which the other sub-test may run.                               *)
(***************************************************************************)
Procs == {1, 2}
ParNames == TestNames
ParHandlers == {h \in Handlers : h.ShouldRecreate \in {"true", "false"} /\ h.ProcessContent = "nil"}

\* the bytes of two writers in one file: a text no test has passed
MixedText == <<0, 2>>

\* the call of a sub-test, looking at the file system as it is now
Shared(c) == [c EXCEPT !.files = files, !.dirs = dirs]

\* lines 100-103, 108-109: Assert up to the recreate decision; no file is
\* touched
Enter(c) ==
    LET process(x) == IF x.h.ProcessContent # "nil" THEN ProcessContent(x) ELSE x
    IN  Then(Then(process([c EXCEPT !.steps = Append(@, "Helper")]), FileName), ShouldRecreate)

\* os.MkdirAll, first half: the directories of path that do not exist yet
Missing(c, path) == AncestorsOf[path] \ c.dirs

\* os.Mkdir in place of os.MkdirAll: a directory that another sub-test made in
\* the meantime is an error
MkdirMissingErrExclusive(c, path, missing) ==
    IF missing \cap c.dirs # {} THEN PathError("mkdir", path, "EEXIST")
    ELSE MkdirAllErr(c, path)

\* os.MkdirAll, second half: the error of making the directories that were
\* missing; one that exists by now is not an error
MkdirMissingErr(c, path, missing) == MkdirAllErr(c, path)

\* os.WriteFile, first half: the file is opened with O_CREATE|O_TRUNC
OpenFile(c, name) ==
    LET c1 == [c EXCEPT !.steps = Append(@, "WriteFile")]
    IN  IF WriteFileErr(c, name) # NilErr THEN c1
        ELSE [c1 EXCEPT !.files = (name :> EmptyText) @@ @]

\* os.WriteFile, second half: the bytes are written from offset 0.  Over
\* what another writer has put there since the open, the file ends as data
\* or, when data is the shorter, as data followed by the other's tail
WriteOutcomes(c, name, data) ==
    IF c.files[name] \in {EmptyText, data} THEN {data} ELSE {data, MixedText}

WriteData(c, name, data, text) ==
    [c EXCEPT !.files = (name :> text) @@ @, !.written = <<data>>]

\* sub-test i has made a step and stands at pc, unless the step halted it
ParStep(i, c, pc, missing) ==
    /\ par' = [par EXCEPT ![i] = [c |-> c, pc |-> IF c.failed THEN "halted" ELSE pc,
                                  missing |-> missing]]
    /\ files' = c.files
    /\ dirs' = c.dirs
    /\ UNCHANGED <<env, call, recreated, tname, tpath>>

ParEnter(i) ==
    /\ par[i].pc = "Assert"
    /\ \E c \in {Enter(Shared(par[i].c))} :
          ParStep(i, c, IF c.recreate = "yes" THEN "MkdirAll" ELSE "ReadFile", {})

\* lines 110-111: Logf, and MkdirAll looks which directories are missing
ParStat(i) ==
    /\ par[i].pc = "MkdirAll"
    /\ \E c \in {[Shared(par[i].c) EXCEPT !.steps = Append(@, "Logf")]} :
          ParStep(i, c, "Mkdir", Missing(c, DirOf[c.fileName]))

\* line 111: MkdirAll makes them, and NoError checks its error
ParMkdir(i) ==
    /\ par[i].pc = "Mkdir"
    /\ \E s \in {Shared(par[i].c)} :
          ParStep(i, NoError(MkdirAll(s, DirOf[s.fileName]),
                             MkdirMissingErr(s, DirOf[s.fileName], par[i].missing),
                             "failed to create testdata directory for golden file"),
                  "WriteFile", par[i].missing)

\* line 112: WriteFile opens the file
ParOpen(i) ==
    /\ par[i].pc = "WriteFile"
    /\ \E s \in {Shared(par[i].c)} :
          ParStep(i, NoError(OpenFile(s, s.fileName), WriteFileErr(s, s.fileName),
                             "failed to write golden file"),
                  "Write", par[i].missing)

\* line 112: WriteFile writes the data, and NoError checks its error
ParWrite(i) ==
    /\ par[i].pc = "Write"
    /\ \E s \in {Shared(par[i].c)} :
          \E text \in WriteOutcomes(s, s.fileName, s.data) :
              ParStep(i, WriteData(s, s.fileName, s.data, text), "ReadFile", par[i].missing)

\* lines 115-117: the golden file is read back
ParReadFile(i) ==
    /\ par[i].pc = "ReadFile"
    /\ ParStep(i, Load(Shared(par[i].c)), "Equal", par[i].missing)

\* line 104: h.Equal(t, expected, data)
ParEqual(i) ==
    /\ par[i].pc = "Equal"
    /\ \E s \in {Shared(par[i].c)} : ParStep(i, Equal(s, s.expected, s.data), "done", par[i].missing)

\* the sub-tests of one test start on an empty testdata tree
ParCall(h, name, data) ==
    [c |-> CallRecord("Assert", h, name, data, "none", "", <<>>, {Dot}, NotRecreated),
     pc |-> "Assert", missing |-> {}]

InitParallel ==
    /\ files = <<>>
    /\ dirs = {Dot}
    /\ env = ""
    /\ call = NoCall
    /\ recreated = NotRecreated
    /\ tname = <<>>
    /\ tpath = <<>>
    /\ par \in [Procs -> {ParCall(h, name, data) : h \in ParHandlers, name \in ParNames, data \in Data}]

NextParallel ==
    \E i \in Procs :
        \/ ParEnter(i)
        \/ ParStat(i)
        \/ ParMkdir(i)
        \/ ParOpen(i)
        \/ ParWrite(i)
        \/ ParReadFile(i)
        \/ ParEqual(i)

SpecParallel == InitParallel /\ [][NextParallel]_vars

(***************************************************************************)
(* Properties.                                                             *)
(***************************************************************************)
ReadFailedText == "failed to read golden file"
IOTexts ==
    {"failed to create testdata directory for golden file",
     "failed to write golden file", ReadFailedText}

\* an I/O operation of call c returned an error
IOFailed(c) == \E i \in 1..Len(c.msg) : c.msg[i].text \in IOTexts

\* the environment made no I/O operation of call c fail
NoIOFailure(c) == c.fault = "none"

\* the call reported nothing and was not stopped
Quiet(c) == c.msg = <<>> /\ ~c.failed

\* the content transform's result: the pretty-printer gives the document's
\* canonical layout, no transform gives the text itself
Transformed(pc, d) == IF pc = "PrettyJSON" THEN <<d[1], 0>> ELSE d

\* the call is Assert(name, arg) made right after the recreate call described
\* by its history, with no other recreate in between
FollowsRecreateOf(c, name, arg, pc) ==
    c.recreated0 = [name |-> name, arg |-> arg, pc |-> pc, fileName |-> GoldenPath[name]]

\* C1: round trip.  With no ProcessContent and no I/O failure, Assert(id, X)
\* under recreate returns true, reports nothing and leaves the golden file
\* holding exactly X; and Assert(id, X) without recreate, made after that
\* call, also returns true, reports nothing and leaves the file holding X.
C1_RoundTrip ==
    (call.op = "Assert" /\ call.h.ProcessContent = "nil" /\ NoIOFailure(call)) =>
        /\ call.recreate = "yes" =>
              /\ call.returned /\ call.ok /\ Quiet(call)
              /\ call.fileName = GoldenPath[call.name]
              /\ call.fileName \in DOMAIN files /\ files[call.fileName] = call.arg
        /\ (call.recreate = "no" /\ FollowsRecreateOf(call, call.name, call.arg, "nil")) =>
              /\ call.returned /\ call.ok /\ Quiet(call)
              /\ call.fileName \in DOMAIN files /\ files[call.fileName] = call.arg

\* C1 witness: the read-only Assert of a round trip has returned true
C1_Witness ==
    /\ call.op = "Assert" /\ call.h.ProcessContent = "nil" /\ call.recreate = "no"
    /\ FollowsRecreateOf(call, call.name, call.arg, "nil")
    /\ call.returned /\ call.ok

\* C2 as claimed: under recreate with a ProcessContent transform, the content
\* written to the golden file is the data as passed to Assert.
C2_WritesRawData ==
    (call.op = "Assert" /\ call.h.ProcessContent # "nil" /\ call.written # <<>>) =>
        call.written[1] = call.arg

\* C2 amended: under recreate with a ProcessContent transform, the content
\* written to the golden file is the output of ProcessContent, not the data
\* as passed.
C2_WritesProcessedData ==
    (call.op = "Assert" /\ call.h.ProcessContent # "nil" /\ call.recreate = "yes"
        /\ ~call.failed) =>
        /\ call.written = <<Transformed(call.h.ProcessContent, call.arg)>>
        /\ files[call.fileName] = Transformed(call.h.ProcessContent, call.arg)

\* C2 witness: a recreate call wrote a text that differs from the data passed
C2_Witness ==
    /\ call.op = "Assert" /\ call.h.ProcessContent = "PrettyJSON" /\ call.recreate = "yes"
    /\ call.written # <<>> /\ call.written[1] # call.arg
    /\ files[call.fileName] # call.arg

\* the content transform stopped the test: the text is not valid JSON
TransformFailed(c) == c.h.ProcessContent = "PrettyJSON" /\ c.arg[1] = 0

\* C3: with a ProcessContent transform that succeeds on the data and no I/O
\* failure, Assert(id, D) under recreate returns true and reports nothing;
\* a following Assert(id, D) without recreate returns true and reports
\* nothing; a following Assert(id, D2) without recreate, where the transform
\* of D2 differs from that of D, returns false and reports the mismatch.
C3_TransformRoundTrip ==
    LET pc == call.h.ProcessContent
    IN  (call.op = "Assert" /\ pc # "nil" /\ NoIOFailure(call) /\ ~TransformFailed(call)) =>
        /\ call.recreate = "yes" => call.returned /\ call.ok /\ Quiet(call)
        /\ (call.recreate = "no" /\ FollowsRecreateOf(call, call.name, call.arg, pc)) =>
              call.returned /\ call.ok /\ Quiet(call)
        /\ \A d \in Data :
              (/\ call.recreate = "no"
               /\ FollowsRecreateOf(call, call.name, d, pc)
               /\ Transformed(pc, d) # Transformed(pc, call.arg)) =>
                  /\ call.returned /\ ~call.ok /\ ~call.failed
                  /\ Len(call.msg) = 1
                  /\ call.msg[1].text = "Not equal"
                  /\ call.msg[1].diff = <<Transformed(pc, d), Transformed(pc, call.arg)>>

\* C3 witness: after a recreate Assert of non-pretty JSON under the
\* pretty-printer, a read-only Assert of another document, also non-pretty,
\* returned false
C3_Witness ==
    /\ call.op = "Assert" /\ call.h.ProcessContent = "PrettyJSON" /\ call.recreate = "no"
    /\ call.recreated0.name = call.name /\ call.recreated0.pc = "PrettyJSON"
    /\ call.recreated0.arg[2] # 0 /\ call.arg[2] # 0
    /\ call.recreated0.arg[1] # call.arg[1]
    /\ call.returned /\ ~call.ok

\* C4: recreate overwrites.  With no ProcessContent and no I/O failure, the
\* golden file holds exactly the data of the most recent recreate call, and
\* an Assert without recreate on that identifier returns true exactly for
\* that data and false for any other.
C4_RecreateOverwrites ==
    /\ (recreated # NotRecreated /\ recreated.pc = "nil") =>
          /\ recreated.fileName \in DOMAIN files
          /\ files[recreated.fileName] = recreated.arg
    /\ (/\ call.op = "Assert" /\ call.h.ProcessContent = "nil" /\ NoIOFailure(call)
        /\ call.recreate = "no"
        /\ call.recreated0.name = call.name /\ call.recreated0.pc = "nil") =>
          /\ call.returned
          /\ call.ok <=> (call.arg = call.recreated0.arg)

\* C4 witness: a recreate call has overwritten the differing data that an
\* earlier recreate call on the same identifier had written
C4_Witness ==
    /\ call.op = "Assert" /\ call.h.ProcessContent = "nil" /\ call.recreate = "yes"
    /\ call.recreated0.name = call.name /\ call.recreated0.pc = "nil"
    /\ call.recreated0.arg # call.arg
    /\ call.files0[call.fileName] = call.recreated0.arg
    /\ files[call.fileName] = call.arg

\* the steps a call ends with
LastSteps(c, n) == SubSeq(c.steps, Len(c.steps) - n + 1, Len(c.steps))
Did(c, step) == \E i \in 1..Len(c.steps) : c.steps[i] = step

\* C5: Assert without recreate, when no file exists at the resolved path,
\* reports one error that names the resolved path and then halts the test
\* (Errorf, then FailNow); Equal is never called and Assert does not return.
C5_MissingFileHalts ==
    (/\ call.op = "Assert" /\ call.recreate = "no"
     /\ call.fileName \notin DOMAIN call.files0) =>
        /\ call.fileName = GoldenPath[call.name]
        /\ call.failed /\ ~call.returned
        /\ Len(call.msg) = 1
        /\ call.msg[1].text = ReadFailedText
        /\ call.msg[1].err.path = call.fileName
        /\ LastSteps(call, 3) = <<"ReadFile", "Errorf", "FailNow">>
        /\ ~Did(call, "Equal")

\* C5 witness: an Assert without recreate has halted on a golden file that
\* does not exist
C5_Witness ==
    /\ call.op = "Assert" /\ call.recreate = "no" /\ call.fault = "none"
    /\ call.fileName \notin DOMAIN call.files0
    /\ call.failed
    /\ call.msg[1].err = PathError("open", call.fileName, "ENOENT")

\* C6: a call of Assert or Request in which ShouldRecreate did not return
\* true leaves every file and directory as it was, whether the call
\* succeeded, reported a mismatch or halted; the file system changes only
\* inside calls where ShouldRecreate returned true.
C6_ReadOnlyFrame ==
    (call.op # "none" /\ call.recreate # "yes") =>
        /\ files = call.files0
        /\ dirs = call.dirs0

\* C6 witness: a call without recreate halted on a missing golden file and
\* the parent directory testdata/<main> was not made
C6_Witness ==
    /\ call.op # "none" /\ call.recreate = "no"
    /\ call.failed
    /\ call.fileName \notin DOMAIN files
    /\ DirOf[call.fileName] \notin dirs

\* C7: a content mismatch does not halt.  When the golden file exists and
\* differs from the (processed) data, Assert without recreate reports one
\* "Not equal" diagnostic through Errorf, never calls FailNow, and returns
\* false.
C7_MismatchDoesNotHalt ==
    (/\ call.op = "Assert" /\ call.recreate = "no" /\ NoIOFailure(call)
     /\ ~TransformFailed(call)
     /\ call.fileName \in DOMAIN call.files0
     /\ call.files0[call.fileName] # Transformed(call.h.ProcessContent, call.arg)) =>
        /\ call.returned /\ ~call.ok
        /\ ~call.failed /\ ~Did(call, "FailNow")
        /\ Len(call.msg) = 1 /\ call.msg[1].text = "Not equal"
        /\ LastSteps(call, 2) = <<"Equal", "Errorf">>

\* C7 witness: an Assert without recreate returned false on a mismatch
C7_Witness ==
    /\ call.op = "Assert" /\ call.recreate = "no"
    /\ call.fileName \in DOMAIN call.files0
    /\ call.files0[call.fileName] # call.data
    /\ call.returned /\ ~call.ok /\ Len(call.msg) = 1

\* C8: with an existing golden file, Assert without recreate returns true
\* if and only if the file content equals ProcessContent(data) (data itself
\* when no transform is set); when it returns true nothing is reported and
\* the test is not failed.
C8_ReturnsEquality ==
    (/\ call.op = "Assert" /\ call.recreate = "no" /\ NoIOFailure(call)
     /\ ~TransformFailed(call)
     /\ call.fileName \in DOMAIN call.files0) =>
        /\ call.returned
        /\ call.ok <=> (call.files0[call.fileName] = Transformed(call.h.ProcessContent, call.arg))
        /\ call.ok => Quiet(call)

\* C8 witness: an Assert without recreate returned true for data that the
\* transform had to change to make it equal to the golden file
C8_Witness ==
    /\ call.op = "Assert" /\ call.recreate = "no" /\ call.h.ProcessContent = "PrettyJSON"
    /\ call.fileName \in DOMAIN call.files0
    /\ call.files0[call.fileName] # call.arg
    /\ call.returned /\ call.ok

\* the parts of a test identifier: main is what precedes its first "/" and
\* rest what follows it with every "/" replaced by "_"; both are the whole
\* identifier when it has no "/"
HasSlash(name) == \E i \in 1..Len(name) : name[i] = "/"
FirstSlash(name) == CHOOSE i \in 1..Len(name) : name[i] = "/" /\ \A j \in 1..(i - 1) : name[j] # "/"
MainPart(name) == IF HasSlash(name) THEN SubSeq(name, 1, FirstSlash(name) - 1) ELSE name
RestPart(name) ==
    IF HasSlash(name)
    THEN [i \in 1..(Len(name) - FirstSlash(name)) |->
             IF name[FirstSlash(name) + i] = "/" THEN "_" ELSE name[FirstSlash(name) + i]]
    ELSE name
Underscored(str) == [i \in 1..Len(str) |-> IF str[i] = " " THEN "_" ELSE str[i]]

\* ./testdata/<main>/<rest>.golden, composed as written
Composed(name) == TestdataDir \o MainPart(name) \o <<"/">> \o RestPart(name) \o GoldenExt
Testdata == <<"t", "e", "s", "t", "d", "a", "t", "a">>

\* C9 as claimed: TestNameToFilePath returns the string
\* ./testdata/<main>/<rest>.golden with every space replaced by "_".
C9_LiteralPath ==
    tpath # <<>> => tpath = Underscored(Composed(tname))

\* C9 amended: TestNameToFilePath returns the lexically cleaned form
\* (filepath.Clean: no leading "./", no empty or "." segment, ".." resolved)
\* of ./testdata/<main>/<rest>.golden with every space replaced by "_"; when
\* main is not empty, "." or "..", that is testdata/<main>/<rest>.golden
\* with every space replaced by "_".
C9_CleanedPath ==
    tpath # <<>> =>
        /\ tpath = Underscored(Clean(Composed(tname)))
        /\ MainPart(tname) \notin {<<>>, Dot, DotDot} =>
              tpath = Testdata \o <<"/">> \o Underscored(MainPart(tname)) \o <<"/">>
                         \o Underscored(RestPart(tname)) \o GoldenExt
        /\ tname = <<"a">> =>
              tpath = Testdata \o <<"/", "a", "/", "a">> \o GoldenExt
        /\ tname = <<"a", "/", "a", "/", "a">> =>
              tpath = Testdata \o <<"/", "a", "/", "a", "_", "a">> \o GoldenExt
        /\ tname = <<"a", "/", "a", " ", "a">> =>
              tpath = Testdata \o <<"/", "a", "/", "a", "_", "a">> \o GoldenExt

\* C9 witness: a nested identifier with a space has been resolved
C9_Witness ==
    /\ tname = <<"a", "/", " ", "/", "a">>
    /\ tpath = Testdata \o <<"/", "a", "/", "_", "_", "a">> \o GoldenExt

\* C10: when no halting failure occurs, Request returns, and its ok is true
\* exactly when the response's status code equals expectedStatusCode and
\* Assert on the response body returned true, that is, when the golden file
\* equals the (processed) body.
C10_RequestOk ==
    (call.op = "Request" /\ ~call.failed) =>
        /\ call.reqReturned /\ call.returned
        /\ call.reqOk <=> (call.resp.StatusCode = call.expectedStatusCode /\ call.ok)
        /\ call.ok <=> (files[call.fileName] = Transformed(call.h.ProcessContent, call.arg))
        /\ call.arg = call.body[1]

\* C10 witness: the body matched the golden file, the status code did not,
\* and Request returned ok = false
C10_Witness ==
    /\ call.op = "Request" /\ call.reqReturned
    /\ call.resp.StatusCode # call.expectedStatusCode
    /\ call.ok /\ ~call.reqOk

StatusText == "expected status code"

\* C11: a status code mismatch in Request does not halt.  It is reported
\* through Errorf, the next step is the read of the body, and Assert runs on
\* the body; when the body does not match the golden file either, both
\* diagnostics are reported, the status one first, and Request returns false.
C11_StatusMismatchGoesOn ==
    (/\ call.op = "Request" /\ call.fault # "Do"
     /\ call.resp0.StatusCode # call.expectedStatusCode) =>
        /\ SubSeq(call.steps, 1, 3) = <<"Do", "Errorf", "ReadAll">>
        /\ Len(call.msg) >= 1
        /\ call.msg[1] = [text |-> StatusText, err |-> NilErr,
                          diff |-> <<call.expectedStatusCode, call.resp0.StatusCode>>]
        /\ call.fault # "ReadAll" =>
              /\ Did(call, "Helper")
              /\ <<call.arg>> = call.resp0.Body.unread
        /\ (/\ NoIOFailure(call) /\ ~TransformFailed(call) /\ call.recreate # "undecided"
            /\ call.fileName \in DOMAIN files
            /\ files[call.fileName] # Transformed(call.h.ProcessContent, call.arg)) =>
              /\ call.returned /\ ~call.ok
              /\ Len(call.msg) = 2 /\ call.msg[2].text = "Not equal"
        /\ call.returned =>
              /\ ~call.failed /\ ~Did(call, "FailNow")
              /\ call.reqReturned /\ ~call.reqOk
              /\ Len(call.msg) = (IF call.ok THEN 1 ELSE 2)

\* C11 witness: the status code and the body both mismatched, and Request
\* returned with the two diagnostics
C11_Witness ==
    /\ call.op = "Request" /\ call.reqReturned /\ ~call.ok
    /\ call.resp0.StatusCode # call.expectedStatusCode
    /\ Len(call.msg) = 2
    /\ call.msg[1].text = StatusText /\ call.msg[2].text = "Not equal"

\* C12: whenever Request returns, the body of the response it returns reads
\* from the start as the whole body of the client's answer, which is the text
\* Assert was given; the status code is the answer's.
C12_BodyRestored ==
    (call.op = "Request" /\ call.reqReturned) =>
        /\ Did(call, "ReadAll")
        /\ call.resp.Body.unread = call.resp0.Body.unread
        /\ call.resp.Body.unread = <<call.arg>>
        /\ call.resp.StatusCode = call.resp0.StatusCode

\* C12 witness: Request returned false on a golden file that does not match,
\* and the body of the response is whole
C12_Witness ==
    /\ call.op = "Request" /\ call.reqReturned /\ ~call.reqOk /\ ~call.ok
    /\ call.recreate = "no"
    /\ call.resp.Body.unread = call.resp0.Body.unread
    /\ call.resp.Body.unread # <<>>

\* C13: an error of client.Do halts the test at once.  The error is reported
\* and FailNow is called, and nothing else happens: no status comparison, no
\* body read, no path resolution, no recreate decision, no file access, no
\* Equal; the response is not looked at and the file system is as it was.
C13_TransportErrorHalts ==
    (call.op = "Request" /\ call.fault = "Do") =>
        /\ call.steps = <<"Do", "Errorf", "FailNow">>
        /\ call.failed /\ ~call.reqReturned /\ ~call.returned
        /\ Len(call.msg) = 1
        /\ call.msg[1].text = "client.Do failed" /\ call.msg[1].err = DoErr(call)
        /\ call.resp = NoResponse /\ call.body = <<>>
        /\ call.fileName = <<>> /\ call.recreate = "undecided" /\ call.written = <<>>
        /\ files = call.files0 /\ dirs = call.dirs0

\* C13 witness: the transport failed on a request whose answer would have had
\* the wrong status code, with golden files on disk
C13_Witness ==
    /\ call.op = "Request" /\ call.fault = "Do" /\ call.failed
    /\ call.resp0.StatusCode # call.expectedStatusCode
    /\ call.files0 # <<>> /\ files = call.files0

ParseFailedText == "failed to parse GOLDEN_FILES_RECREATE env variable"

\* the step that follows the first occurrence of a step in a call
FirstAt(c, step) == CHOOSE i \in 1..Len(c.steps) : c.steps[i] = step /\ \A j \in 1..(i - 1) : c.steps[j] # step
After(c, step) == SubSeq(c.steps, FirstAt(c, step) + 1, Len(c.steps))
Count(c, step) == Cardinality({i \in 1..Len(c.steps) : c.steps[i] = step})

\* C14: the default recreate policy.  When GOLDEN_FILES_RECREATE is set to a
\* value that is not a boolean, ParseRecreateFromEnv reports the error and
\* halts the test, and the Assert call that ran it writes nothing; when
\* the variable is unset it returns false and reports nothing.
C14_DefaultPolicy ==
    (/\ call.op = "Assert" /\ call.h.ShouldRecreate = "ParseRecreateFromEnv"
     /\ ~TransformFailed(call)) =>
        /\ (call.env # "" /\ call.env \notin ParseBoolTrue \cup ParseBoolFalse) =>
              /\ After(call, "ShouldRecreate") = <<"Errorf", "FailNow">>
              /\ call.failed /\ ~call.returned
              /\ Len(call.msg) = 1
              /\ call.msg[1].text = ParseFailedText
              /\ call.msg[1].err = ParseBoolErr(call.env)
              /\ call.written = <<>> /\ ~Did(call, "MkdirAll") /\ ~Did(call, "WriteFile")
              /\ files = call.files0 /\ dirs = call.dirs0
        /\ call.env = "" =>
              /\ call.recreate = "no"
              /\ After(call, "ShouldRecreate")[1] = "ReadFile"
              /\ \A i \in 1..Len(call.msg) : call.msg[i].text # ParseFailedText

\* C14 witness: an Assert call under the default policy was halted by a value
\* that is not a boolean, with its golden file on disk left as it was
C14_Witness ==
    /\ call.op = "Assert" /\ call.h.ShouldRecreate = "ParseRecreateFromEnv"
    /\ call.env = "maybe" /\ call.failed
    /\ call.msg[1].text = ParseFailedText
    /\ call.fileName \in DOMAIN files /\ files[call.fileName] # call.data

\* what the policy of handler h evaluates to in environment e
PolicyTrue(h, e) ==
    \/ h.ShouldRecreate = "true"
    \/ h.ShouldRecreate = "ParseRecreateFromEnv" /\ e \in ParseBoolTrue

PolicyFalse(h, e) ==
    \/ h.ShouldRecreate = "false"
    \/ h.ShouldRecreate = "ParseRecreateFromEnv" /\ e \in ParseBoolFalse \cup {""}

\* C15: the recreate policy is resolved once in every Assert call, from the
\* environment and the handler of that call: the call writes the golden file
\* if and only if the policy evaluates to true when the call is made,
\* whatever it evaluated to in earlier calls or when the process started.
C15_PolicyPerCall ==
    (call.op = "Assert" /\ NoIOFailure(call) /\ ~TransformFailed(call)) =>
        /\ call.env = env
        /\ Count(call, "ShouldRecreate") = 1
        /\ (call.recreate = "yes") <=> PolicyTrue(call.h, call.env)
        /\ (call.recreate = "no") <=> PolicyFalse(call.h, call.env)
        /\ (call.written # <<>>) <=> PolicyTrue(call.h, call.env)
        /\ PolicyTrue(call.h, call.env) =>
              /\ call.written = <<call.data>> /\ files[call.fileName] = call.data
              /\ Count(call, "WriteFile") = 1
        /\ ~PolicyTrue(call.h, call.env) => files = call.files0

\* C15 witness: under the default policy a call made with the variable set to
\* true (it was unset when the process started) wrote the golden file over
\* the differing data an earlier call had written
C15_Witness ==
    /\ call.op = "Assert" /\ call.h.ShouldRecreate = "ParseRecreateFromEnv"
    /\ call.env = "true" /\ call.written # <<>>
    /\ call.recreated0 # NotRecreated
    /\ call.recreated0.arg # call.arg
    /\ call.files0[call.fileName] = call.recreated0.arg

MkdirFailedText == "failed to create testdata directory for golden file"
WriteFailedText == "failed to write golden file"
TransformFailedText == "failed to pretty print JSON"

\* call c stopped at the step named, with the one report of that step
HaltedAt(c, step, text) ==
    /\ LastSteps(c, 3) = <<step, "Errorf", "FailNow">>
    /\ Count(c, step) = 1
    /\ c.failed /\ ~c.returned /\ ~c.ok
    /\ Len(c.msg) = 1 /\ c.msg[1].text = text

\* C17: a halting failure stops Assert at the failing step.  Under recreate a
\* failure to make the directory halts before any write, and a failure to
\* write halts before the file is read; a failure to read, with or without
\* recreate, halts before Equal.  Each halt follows exactly one Errorf, that
\* of the failing step, and Assert does not return true after it.
C17_HaltsAtFailingStep ==
    call.op = "Assert" =>
        /\ call.fault = "MkdirAll" =>
              /\ HaltedAt(call, "MkdirAll", MkdirFailedText)
              /\ ~Did(call, "WriteFile") /\ ~Did(call, "ReadFile") /\ ~Did(call, "Equal")
              /\ call.written = <<>> /\ files = call.files0
        /\ call.fault \in {"WriteFile", "WriteFileData"} =>
              /\ HaltedAt(call, "WriteFile", WriteFailedText)
              /\ After(call, "MkdirAll")[1] = "WriteFile"
              /\ ~Did(call, "ReadFile") /\ ~Did(call, "Equal")
        /\ (Did(call, "ReadFile")
              /\ (call.fault = "ReadFile" \/ call.fileName \notin DOMAIN files)) =>
              /\ HaltedAt(call, "ReadFile", ReadFailedText)
              /\ ~Did(call, "Equal")
        /\ call.failed =>
              /\ ~call.returned /\ ~call.ok
              /\ Count(call, "Errorf") = 1 /\ Count(call, "FailNow") = 1
              /\ LastSteps(call, 2) = <<"Errorf", "FailNow">>
        /\ Did(call, "Equal") => ~call.failed

\* C17 witness: under recreate the golden file was written and the read back
\* failed; the call halted before Equal
C17_Witness ==
    /\ call.op = "Assert" /\ call.recreate = "yes" /\ call.fault = "ReadFile"
    /\ call.written # <<>>
    /\ LastSteps(call, 4) = <<"WriteFile", "ReadFile", "Errorf", "FailNow">>

\* C18: ProcessContent runs before the path is resolved, the recreate
\* decision is taken or any file is touched.  When the transform fails (text
\* that is not JSON given to the pretty-printer) the test is halted with the
\* report of the transform, the golden file and the directories are as they
\* were, also under a policy that answers true, and Equal is not called, so
\* that no equality mismatch is reported.
C18_TransformFirst ==
    (call.op = "Assert" /\ call.h.ProcessContent # "nil") =>
        /\ SubSeq(call.steps, 1, 2) = <<"Helper", "ProcessContent">>
        /\ TransformFailed(call) =>
              /\ call.steps = <<"Helper", "ProcessContent", "Errorf", "FailNow">>
              /\ call.failed /\ ~call.returned
              /\ Len(call.msg) = 1 /\ call.msg[1].text = TransformFailedText
              /\ call.fileName = <<>> /\ call.recreate = "undecided" /\ call.written = <<>>
              /\ files = call.files0 /\ dirs = call.dirs0
        /\ ~TransformFailed(call) => call.steps[3] = "FileName"

\* C18 witness: the transform failed in a call whose policy answers true, and
\* the golden file of the test still holds what it held
C18_Witness ==
    /\ call.op = "Assert" /\ TransformFailed(call) /\ call.failed
    /\ call.h.ShouldRecreate = "true"
    /\ GoldenPath[call.name] \in DOMAIN files
    /\ files[GoldenPath[call.name]] = call.files0[GoldenPath[call.name]]

\* the other parallel sub-test
Other(i) == CHOOSE j \in Procs : j # i

\* the golden file of parallel sub-test i
PathOf(i) == GoldenPath[par[i].c.name]

\* sub-test i is past the statement named
Past(i, pcs) == par[i].pc \in pcs

\* C16: parallel sub-tests that recreate distinct golden files in the same
\* directory never fail on making that directory.  Under every interleaving
\* each call finds or makes the directory, writes its own file, reads it
\* back and returns true, reporting nothing, and its file holds its data.
C16_MkdirRaceTolerated ==
    \A i \in Procs :
        (/\ par[i].c.h.ShouldRecreate = "true" /\ par[Other(i)].c.h.ShouldRecreate = "true"
         /\ PathOf(i) # PathOf(Other(i))
         /\ DirOf[PathOf(i)] = DirOf[PathOf(Other(i))]) =>
            /\ par[i].pc # "halted" /\ ~par[i].c.failed /\ par[i].c.msg = <<>>
            /\ Past(i, {"WriteFile", "Write", "ReadFile", "Equal", "done"}) =>
                  DirOf[PathOf(i)] \in dirs
            /\ Past(i, {"ReadFile", "Equal", "done"}) =>
                  /\ PathOf(i) \in DOMAIN files
                  /\ files[PathOf(i)] = par[i].c.data
            /\ Past(i, {"done"}) =>
                  /\ par[i].c.returned /\ par[i].c.ok
                  /\ par[i].c.expected = par[i].c.data

\* C16 witness: both sub-tests found the directory missing and went on to
\* make it, and both have returned true with their own files written
C16_Witness ==
    /\ par # NoPar
    /\ PathOf(1) # PathOf(2)
    /\ par[1].missing \cap par[2].missing # {}
    /\ par[1].pc = "done" /\ par[2].pc = "done"
    /\ par[1].c.ok /\ par[2].c.ok
    /\ files[PathOf(1)] = par[1].c.data /\ files[PathOf(2)] = par[2].c.data

\* what a recreate call of sub-test i can find in its file when another
\* sub-test writes the same file
Foreign(i) == {par[Other(i)].c.data, EmptyText, MixedText} \ {par[i].c.data}

\* sub-test i recreates a file that the other sub-test recreates too
Contended(i) ==
    /\ par[i].c.h.ShouldRecreate = "true" /\ par[Other(i)].c.h.ShouldRecreate = "true"
    /\ PathOf(i) = PathOf(Other(i))

C19_Outcomes ==
    \A i \in Procs :
        par[i].c.h.ShouldRecreate = "true" =>
            /\ ~par[i].c.failed
            /\ Past(i, {"done"}) =>
                  /\ par[i].c.returned
                  /\ par[i].c.ok <=> (par[i].c.expected = par[i].c.data)
                  /\ (~Contended(i) \/ par[Other(i)].pc = "Assert") =>
                        par[i].c.ok /\ Quiet(par[i].c)
                  /\ ~par[i].c.ok =>
                        /\ par[i].c.expected \in Foreign(i)
                        /\ par[i].c.msg = <<[text |-> "Not equal", err |-> NilErr,
                                            diff |-> <<par[i].c.expected, par[i].c.data>>]>>

C19_ReadsTheFileAsItIs ==
    \A i \in Procs :
        (par[i].pc = "ReadFile" /\ par'[i].pc # "ReadFile" /\ PathOf(i) \in DOMAIN files) =>
            /\ par'[i].pc = "Equal"
            /\ par'[i].c.expected = files[PathOf(i)]

\* C19: writes to one golden path are not serialized.  The write and the
\* read back of a recreate call are separate steps: the read back returns
\* what the file holds when it is read, whoever wrote it.  A recreate call
\* that no other call contends with returns true; one that runs while another
\* sub-test recreates the same file returns true or returns false with a
\* mismatch diagnostic whose expected text is the other's data (or the file
\* as the other's write had left it half way: empty, or mixed).
C19_NotSerialized == []C19_Outcomes /\ [][C19_ReadsTheFileAsItIs]_vars

\* C19 witness: a recreate call read back the data of the other sub-test and
\* returned false with the mismatch diagnostic
C19_Witness ==
    /\ par # NoPar
    /\ Contended(1) /\ par[1].c.data # par[2].c.data
    /\ par[1].pc = "done" /\ par[1].c.written = <<par[1].c.data>>
    /\ par[1].c.expected = par[2].c.data
    /\ par[1].c.returned /\ ~par[1].c.ok
    /\ Len(par[1].c.msg) = 1 /\ par[1].c.msg[1].text = "Not equal"

\* the identifiers that differ from name in one character: a space against
\* "_" anywhere, or "/", "_" and " " against each other after the first "/"
Lookalikes(name) ==
    {[name EXCEPT ![i] = ch] : <<i, ch>> \in
        {ic \in (1..Len(name)) \X {"/", "_", " "} :
            /\ ic[2] # name[ic[1]]
            /\ \/ name[ic[1]] \in {" ", "_"} /\ ic[2] \in {" ", "_"}
               \/ /\ HasSlash(name) /\ ic[1] > FirstSlash(name)
                  /\ name[ic[1]] \in {"/", "_", " "}}}

\* no test has called Assert yet
NothingCalled == call = NoCall /\ files = <<>> /\ recreated = NotRecreated

\* C20: the path derivation is not injective.  Identifiers that differ only
\* by "/" against "_" after the first "/", or by a space against "_"
\* anywhere, resolve to the same golden path (for every identifier up to
\* MaxNameLen, a fact about the resolver that is looked at once, before any
\* call); so that a recreate call of one such identifier overwrites the
\* golden file an earlier call of another had written, and a call without
\* recreate reads what a call of another identifier wrote.
C20_PathsCollide ==
    /\ NothingCalled =>
          /\ \A n \in Names : \A m \in Lookalikes(n) :
                m # n /\ TestNameToFilePath(m) = TestNameToFilePath(n)
          /\ \A n \in CollidingNames, m \in CollidingNames : GoldenPath[n] = GoldenPath[m]
    /\ (call.op = "Assert" /\ call.recreated0 # NotRecreated /\ call.recreate # "undecided") =>
          /\ call.fileName = call.recreated0.fileName
          /\ call.files0[call.fileName] = call.recreated0.arg
          /\ call.recreate = "yes" => files[call.fileName] = call.arg
          /\ call.recreate = "no" =>
                /\ call.expected = call.recreated0.arg
                /\ call.returned
                /\ call.ok <=> (call.arg = call.recreated0.arg)

\* C20 witness: a recreate call of "T/a/b" has overwritten the differing data
\* that the recreate call of "T/a_b" had written
C20_Witness ==
    /\ call.op = "Assert" /\ call.recreate = "yes"
    /\ call.name = <<"T", "/", "a", "/", "b">>
    /\ call.recreated0.name = <<"T", "/", "a", "_", "b">>
    /\ call.recreated0.arg # call.arg
    /\ call.files0[call.fileName] = call.recreated0.arg
    /\ files[call.fileName] = call.arg

\* C21: Request under a recreate policy that is true writes the golden file
\* with the response body whatever the status code.  With no halting failure,
\* Request returns, the golden file of the test holds the body of the
\* response (the body itself when no ProcessContent is configured, its
\* transform otherwise), Assert on the body returned true, and ok is false
\* when the status code differs from expectedStatusCode and true when it
\* is equal.
C21_RecreateWhateverTheStatus ==
    (/\ call.op = "Request" /\ PolicyTrue(call.h, call.env)
     /\ NoIOFailure(call) /\ ~TransformFailed(call)) =>
        /\ call.reqReturned /\ call.recreate = "yes"
        /\ call.fileName = GoldenPath[call.name]
        /\ call.fileName \in DOMAIN files
        /\ <<call.arg>> = call.resp0.Body.unread
        /\ call.written = <<Transformed(call.h.ProcessContent, call.arg)>>
        /\ files[call.fileName] = Transformed(call.h.ProcessContent, call.arg)
        /\ call.h.ProcessContent = "nil" => <<files[call.fileName]>> = call.resp0.Body.unread
        /\ call.ok
        /\ call.resp0.StatusCode # call.expectedStatusCode =>
              /\ ~call.reqOk
              /\ Len(call.msg) = 1 /\ call.msg[1].text = StatusText
        /\ call.resp0.StatusCode = call.expectedStatusCode =>
              /\ call.reqOk /\ Quiet(call)

\* C21 witness: the answer had an unexpected status code, the golden file held
\* another text, and Request returned false with the file rewritten to the
\* body of that answer
C21_Witness ==
    /\ call.op = "Request" /\ call.h.ShouldRecreate = "true" /\ call.h.ProcessContent = "nil"
    /\ call.reqReturned /\ ~call.reqOk
    /\ call.resp0.StatusCode # call.expectedStatusCode
    /\ call.fileName \in DOMAIN call.files0
    /\ call.files0[call.fileName] # call.arg
    /\ files[call.fileName] = call.arg

\* path is the directory testdata or lies below it
UnderTestdata(path) ==
    \/ path = Testdata
    \/ /\ Len(path) > Len(Testdata) + 1
       /\ SubSeq(path, 1, Len(Testdata) + 1) = Testdata \o <<"/">>

\* the directory testdata/<main> of a test identifier, as the file system
\* resolves it
MainDir(name) == Underscored(Clean(TestdataDir \o MainPart(name)))

\* what a call has created: the files and directories that were not there at
\* its entry
Created(c) == ((DOMAIN c.files) \ (DOMAIN c.files0)) \cup (c.dirs \ c.dirs0)

\* C22 as claimed: for every test identifier, the empty one, those beginning
\* or ending with "/" and those whose first segment is "." or ".." included,
\* the path of the golden file names a file directly inside the directory
\* testdata/<main>, and every file or directory that a recreate Assert
\* creates lies under ./testdata/.
C22_CreatesUnderTestdata ==
    (call.op = "Assert" /\ call.recreate = "yes") =>
        /\ call.fileName = TestNameToFilePath(call.name)
        /\ Dir(call.fileName) = MainDir(call.name)
        /\ UnderTestdata(call.fileName)
        /\ \A p \in Created(call) : UnderTestdata(p)

\* C22, where the code departs from it: a recreate Assert of the test "../a"
\* has created the file a.golden in the working directory, beside testdata
C22_Witness ==
    /\ call.op = "Assert" /\ call.recreate = "yes" /\ call.returned /\ call.ok
    /\ call.name = <<".", ".", "/", "a">>
    /\ call.fileName = <<"a">> \o GoldenExt
    /\ call.fileName \in Created(call)
    /\ files[call.fileName] = call.arg
    /\ ~UnderTestdata(call.fileName)

\* C22, the extent of the departure: the path resolved for an identifier lies
\* under testdata exactly when the identifier's first segment is not "..";
\* it always names a file directly inside testdata/<main> as the file system
\* resolves that directory, which for ".." is the working directory.
C22_OutsideForDotDot ==
    tpath # <<>> =>
        /\ UnderTestdata(tpath) <=> (MainPart(tname) # DotDot)
        /\ Dir(tpath) = MainDir(tname)
        /\ MainPart(tname) = DotDot => Dir(tpath) = Dot

====
